---- MODULE Spec2Model ----
(***************************************************************************)
(* A model of dsim: the live MessageBus (src/message_bus/message_bus.rs)   *)
(* with its owner thread and its dispatch thread, and the stepping         *)
(* Simulator (src/message_bus/simulator.rs).                               *)
(***************************************************************************)
EXTENDS Integers, Sequences, FiniteSets, TLC

\* ------------------------------------------------------------------ bounds
MaxQueues == 2
MaxEnv == 2
MaxOut == 2
MaxTime == 2
MaxInterval == 2
MaxTickLog == 6
MaxSteps == 2
MaxSimEnv == 3
MaxInit == 1
MaxBy == 1
MaxTarget == 3
MaxToBy == 2
MaxScript == 3

\* ------------------------------------------------------------- vocabulary
\* Subscriber names and envelope destinations. "" is the destination of the
\* shutdown sentinel; subscribe() accepts any String as a name.
Names == {"", "a"}
\* Envelope.priority is a usize; 0..MaxQueues always holds a value above N-1.
Prios == 0 .. MaxQueues
\* The message of the sentinel (NopEnvelope); other messages are numbered 1..
NopId == 0

Min(a, b) == IF a <= b THEN a ELSE b

VARIABLES
    \* MessageBus fields, owner side
    requested,      \* the `queues` argument given to new / with_hook
    nq,             \* msg_txs.len()
    tick_interval,
    horizon,        \* how far the clock runs in this behaviour
    supply,         \* how many messages are created in this behaviour
    subscribers,    \* self.subscribers (keys)
    msg_rxs,        \* self.msg_rxs.is_some()
    hook,           \* self.hook.is_some()
    handle,         \* self.handle.is_some()
    shutdown,       \* the AtomicBool
    queues,         \* the flume channels: lane -> sequence of envelopes
    opc,            \* where the owner thread is
    dropping,       \* the owner is running Drop::drop
    \* dispatch thread (process_messages) locals
    dpc,            \* where the dispatch thread is
    dsubs,          \* the registry moved into the thread
    dorder,         \* iteration order of that HashMap, fixed for the run
    start_time,
    next_tick,
    tick_at,        \* `at` of the tick round in progress
    iter,           \* subscribers still to visit in the current for loop
    timeout,        \* the wait computed at the loop head
    deadline,       \* when the selective wait gives up
    poll_i,         \* index i of the descending try_recv loop
    envelope_opt,   \* <<>> or <<[env, lane]>>
    cb,             \* the callback being executed: <<>> or <<record>>
    outbox,         \* envelopes a callback returned, not yet sent
    \* environment
    now,            \* the system clock
    nextId,         \* next fresh message identity
    \* observation
    threads,        \* dispatch threads spawned so far
    active,         \* callbacks currently executing
    sentinels,      \* sentinels sent by stop()
    joins,          \* successful handle.join() calls
    tickLog,        \* tick calls, in order: [sub, at]
    delivered,      \* receive calls, in order: [env, sub, lane]
    enq,            \* sends, in order: [env, lane]
    hookSeen        \* messages passed to on_publish

\* The Simulator (simulator.rs)
VARIABLES
    sim_subscribers,  \* self.subscribers (keys)
    sim_order,        \* iteration order of that HashMap
    events,           \* self.events: lane -> sequence of SimulatorEvent
    time,             \* self.time
    spc,              \* where step() is: "idle", "tick", "drain", "panic"
    step_by,
    taken,            \* the local `events`, moved out of self.events
    num_queues,
    new_events,
    sim_iter,         \* subscribers still to tick in the current loop
    drain_lane,       \* position of the drain: lane and index in the lane
    drain_idx,
    tick_ev,          \* <<at>> inside a Tick(at) event's loop, else <<>>
    simNextId,        \* next fresh message identity
    steps,            \* step() calls made
    \* observation of the step in progress, or of the last one
    produced,         \* events captured from callbacks, in order
    received,         \* receive calls: [env, sub, at]
    drained,          \* events taken off the snapshot, in order
    drained_pos,      \* and where each was in the snapshot: <<lane, index>>
    lanes_given,      \* the length of initial_events given to new()
    sim_calls,        \* callbacks made: [kind, sub, at, env, phase]
    time_before,      \* self.time when the step began
    sim_ret,          \* <<value returned by the last step()>>
    \* step_to(time, step_by)
    to_pc,            \* "none", or "loop" inside step_to
    to_target,
    to_by,
    to_start,         \* self.time when step_to was called
    to_steps,         \* the step() calls of this step_to, as <<from, by>>
    to_ret,           \* <<value returned by the last step_to()>>
    \* a second Simulator built from the same arguments
    given_events,     \* initial_events, kept for the second instance
    run,              \* 1 for the first instance, 2 for the second
    first_run         \* <<what the first instance did>>, <<>> before

detVars == <<given_events, run, first_run>>

toVars == <<to_pc, to_target, to_by, to_start, to_steps, to_ret>>

simVars == <<sim_subscribers, sim_order, events, time, spc, step_by, taken,
             num_queues, new_events, sim_iter, drain_lane, drain_idx, tick_ev,
             simNextId, steps, produced, received, drained, drained_pos,
             lanes_given, sim_calls, time_before, sim_ret, toVars, detVars>>

busVars == <<requested, nq, tick_interval, horizon, supply, subscribers,
             msg_rxs, hook, handle,
             shutdown, queues, opc, dropping, dpc, dsubs, dorder, start_time,
             next_tick, tick_at, iter, timeout, deadline, poll_i, envelope_opt,
             cb, outbox, now, nextId, threads, active, sentinels, joins,
             tickLog, delivered, enq, hookSeen>>

vars == <<busVars, simVars>>

Lanes == 0 .. (nq - 1)

\* All orders in which a HashMap holding the keys S may be iterated.
RECURSIVE Perms(_)
Perms(S) ==
    IF S = {} THEN {<<>>}
    ELSE UNION {{<<x>> \o p : p \in Perms(S \ {x})} : x \in S}

\* ---------------------------------------------------------- construction
\* with_hook: a request for 0 queues becomes 1.
QueueCount(q) == IF q = 0 THEN 1 ELSE q

\* Mutant of LaneOf: the priority wraps around instead of saturating.
LaneOfWrapping(p) == p % nq

\* envelope.priority.min(txs.len() - 1)
LaneOf(p) == Min(p, nq - 1)

\* Mutant of Send: the envelope goes to the front of the lane.
SendFront(e, lane) ==
    /\ queues' = [queues EXCEPT ![lane] = <<e>> \o @]
    /\ enq' = Append(enq, [env |-> e, lane |-> lane])

\* txs[lane].send(envelope): append to the lane's FIFO.
Send(e, lane) ==
    /\ queues' = [queues EXCEPT ![lane] = Append(@, e)]
    /\ enq' = Append(enq, [env |-> e, lane |-> lane])

\* A flume send fails only when every receiver is gone: the receivers live in
\* msg_rxs until start() and in the dispatch thread until it returns.
Connected == msg_rxs \/ dpc # "done"

\* An Envelope {message, priority, destination}. The message is its identity
\* id; from and batch record who made it ("publish", "tick", "receive",
\* "stop") and, for a callback, the first id of the Vec it was returned in.
Envelope(id, dest, prio, from, batch) ==
    [id |-> id, dest |-> dest, prio |-> prio, from |-> from, batch |-> batch]

\* The runs explored, as <<queues argument, tick_interval, horizon, supply>>:
\* message traffic on every queue count with the clock standing still, and a
\* running clock on every tick interval with one message.
Scenarios ==
    {<<q, MaxInterval, 0, MaxEnv>> : q \in 0 .. MaxQueues}
    \cup {<<MaxQueues, i, MaxTime, MaxEnv - 1>> : i \in 0 .. MaxInterval}

\* MessageBus::with_hook(tick_interval, queues, hook)
WithHook(sc) ==
    /\ requested = sc[1]
    /\ nq = QueueCount(sc[1])
    /\ tick_interval = sc[2]
    /\ horizon = sc[3]
    /\ supply = sc[4]
    /\ subscribers = {}
    /\ msg_rxs = TRUE
    /\ hook = TRUE
    /\ handle = FALSE
    /\ shutdown = FALSE
    /\ queues = [l \in 0 .. (QueueCount(sc[1]) - 1) |-> <<>>]

\* Nothing has run yet: no thread, no callback, the clock at 0.
Fresh ==
    /\ opc = "idle"
    /\ dropping = FALSE
    /\ dpc = "none"
    /\ dsubs = {}
    /\ dorder = <<>>
    /\ start_time = 0
    /\ next_tick = 0
    /\ tick_at = 0
    /\ iter = <<>>
    /\ timeout = 0
    /\ deadline = 0
    /\ poll_i = 0
    /\ envelope_opt = <<>>
    /\ cb = <<>>
    /\ outbox = <<>>
    /\ now = 0
    /\ nextId = 1
    /\ threads = 0
    /\ active = 0
    /\ sentinels = 0
    /\ joins = 0
    /\ tickLog = <<>>
    /\ delivered = <<>>
    /\ enq = <<>>
    /\ hookSeen = {}

\* SimulatorEvent::Envelope(envelope, at) and SimulatorEvent::Tick(at)
NoEnvelope == Envelope(-1, "", 0, "none", 0)
EnvelopeEvent(e, at) == [kind |-> "envelope", env |-> e, at |-> at]
TickEvent(at) == [kind |-> "tick", env |-> NoEnvelope, at |-> at]

\* The envelope at index i of lane l of initial_events.
InitialEnvelope(l, i, d) == Envelope(100 + 10 * l + i, d, l, "initial", 0)

\* What one lane of initial_events may hold: up to MaxInit events, ticks and
\* envelopes for any name, stamped with the initial time.
LaneContents ==
    UNION {[1 .. k -> {"tick"} \cup Names] : k \in 0 .. MaxInit}

InitialLane(l, c) ==
    [i \in DOMAIN c |->
        IF c[i] = "tick" THEN TickEvent(0)
        ELSE EnvelopeEvent(InitialEnvelope(l, i, c[i]), 0)]

\* Mutant of SimNew: an empty initial_events is kept as it is.
SimNewAsGiven(subs, order, initial_events) ==
    /\ sim_subscribers = subs
    /\ sim_order = order
    /\ events = initial_events
    /\ time = 0
    /\ spc = "idle"
    /\ step_by = 0
    /\ taken = <<>>
    /\ num_queues = 0
    /\ new_events = <<>>
    /\ sim_iter = <<>>
    /\ drain_lane = 0
    /\ drain_idx = 0
    /\ tick_ev = <<>>
    /\ simNextId = 1
    /\ steps = 0
    /\ produced = <<>>
    /\ received = <<>>
    /\ drained = <<>>
    /\ drained_pos = <<>>
    /\ lanes_given = Cardinality(DOMAIN initial_events)
    /\ sim_calls = <<>>
    /\ time_before = 0
    /\ sim_ret = <<>>
    /\ to_pc = "none"
    /\ to_target = 0
    /\ to_by = 0
    /\ to_start = 0
    /\ to_steps = <<>>
    /\ to_ret = <<>>
    /\ run = 1
    /\ first_run = <<>>

\* Simulator::new(subscribers, initial_time, initial_events): no lane given
\* becomes one empty lane.
SimNew(subs, order, initial_events) ==
    /\ sim_subscribers = subs
    /\ sim_order = order
    /\ events = (IF DOMAIN initial_events = {}
                 THEN [l \in {0} |-> <<>>]
                 ELSE initial_events)
    /\ time = 0
    /\ spc = "idle"
    /\ step_by = 0
    /\ taken = <<>>
    /\ num_queues = 0
    /\ new_events = <<>>
    /\ sim_iter = <<>>
    /\ drain_lane = 0
    /\ drain_idx = 0
    /\ tick_ev = <<>>
    /\ simNextId = 1
    /\ steps = 0
    /\ produced = <<>>
    /\ received = <<>>
    /\ drained = <<>>
    /\ drained_pos = <<>>
    /\ lanes_given = Cardinality(DOMAIN initial_events)
    /\ sim_calls = <<>>
    /\ time_before = 0
    /\ sim_ret = <<>>
    /\ to_pc = "none"
    /\ to_target = 0
    /\ to_by = 0
    /\ to_start = 0
    /\ to_steps = <<>>
    /\ to_ret = <<>>
    /\ run = 1
    /\ first_run = <<>>

\* The live bus is checked beside a Simulator nobody steps, and the
\* Simulator beside a bus nobody calls.
Init ==
    /\ Fresh
    /\ \E sc \in Scenarios : WithHook(sc)
    /\ SimNew({}, <<>>, <<>>)
    /\ given_events = <<>>

SimInit ==
    /\ Fresh
    /\ WithHook(<<1, 1, 0, 0>>)
    /\ \E subs \in SUBSET Names : \E order \in Perms(subs) :
         \E n \in 0 .. MaxQueues :
           \E c \in [0 .. (n - 1) -> LaneContents] :
             SimNew(subs, order, [l \in 0 .. (n - 1) |-> InitialLane(l, c[l])])
    /\ given_events = <<>>

ownerVars == <<subscribers, msg_rxs, hook, handle, opc, dropping>>
dispVars == <<dsubs, dorder, start_time, next_tick, tick_at, iter, timeout,
              deadline, poll_i, envelope_opt, cb, outbox>>
configVars == <<requested, nq, tick_interval, horizon, supply>>
obsVars == <<threads, active, sentinels, joins, tickLog, delivered, enq,
             hookSeen>>

\* ------------------------------------------------------------ owner thread
\* Mutant of Subscribe: the map is shared with the dispatch thread.
SubscribeShared(n) ==
    /\ opc = "idle"
    /\ subscribers' = subscribers \cup {n}
    /\ dsubs' = (IF dpc = "none" THEN dsubs ELSE dsubs \cup {n})
    /\ dorder' = (IF dpc = "none" \/ n \in dsubs THEN dorder
                  ELSE Append(dorder, n))
    /\ UNCHANGED <<simVars, configVars, msg_rxs, hook, handle, shutdown, queues, opc,
                   dropping, dpc, start_time, next_tick, tick_at, iter, timeout,
                   deadline, poll_i, envelope_opt, cb, outbox, now, nextId,
                   obsVars>>

\* subscribe(destination, sender)
Subscribe(n) ==
    /\ opc = "idle"
    /\ subscribers' = subscribers \cup {n}
    /\ UNCHANGED <<simVars, configVars, msg_rxs, hook, handle, shutdown, queues, opc,
                   dropping, dpc, dispVars, now, nextId, obsVars>>

\* start(), when msg_rxs is still there: spawn the dispatch thread.
StartSpawn ==
    /\ msg_rxs' = FALSE
    /\ hook' = FALSE
    /\ handle' = TRUE
    /\ subscribers' = {}
    /\ dsubs' = subscribers
    /\ \E p \in Perms(subscribers) : dorder' = p
    /\ dpc' = "spawned"
    /\ threads' = threads + 1
    /\ UNCHANGED <<opc, dropping>>

\* Mutant of Start: no check that the bus was started before.
StartUnchecked ==
    /\ opc = "idle"
    /\ StartSpawn
    /\ UNCHANGED <<simVars, configVars, shutdown, queues, start_time, next_tick, tick_at,
                   iter, timeout, deadline, poll_i, envelope_opt, cb, outbox,
                   now, nextId, active, sentinels, joins, tickLog,
                   delivered, enq, hookSeen>>

\* Mutant of Start: the handle is taken before the check, so a failed start
\* forgets the running thread.
StartForgetsHandle ==
    /\ opc = "idle"
    /\ IF msg_rxs
       THEN StartSpawn
       ELSE /\ opc' = "panic"
            /\ handle' = FALSE
            /\ UNCHANGED <<subscribers, msg_rxs, hook, dropping, dpc,
                           dsubs, dorder, threads>>
    /\ UNCHANGED <<simVars, configVars, shutdown, queues, start_time, next_tick, tick_at,
                   iter, timeout, deadline, poll_i, envelope_opt, cb, outbox,
                   now, nextId, active, sentinels, joins, tickLog,
                   delivered, enq, hookSeen>>

\* start(): msg_rxs.take().expect("MessageBus already started")
Start ==
    /\ opc = "idle"
    /\ IF msg_rxs
       THEN StartSpawn
       ELSE /\ opc' = "panic"
            /\ UNCHANGED <<subscribers, msg_rxs, hook, handle, dropping, dpc,
                           dsubs, dorder, threads>>
    /\ UNCHANGED <<simVars, configVars, shutdown, queues, start_time, next_tick, tick_at,
                   iter, timeout, deadline, poll_i, envelope_opt, cb, outbox,
                   now, nextId, active, sentinels, joins, tickLog,
                   delivered, enq, hookSeen>>

\* publish(envelope)
Publish(d, p) ==
    /\ opc = "idle"
    /\ nextId <= supply
    /\ IF Connected
       THEN /\ Send(Envelope(nextId, d, p, "publish", 0), LaneOf(p))
            /\ nextId' = nextId + 1
            /\ opc' = opc
       ELSE /\ opc' = "panic"
            /\ UNCHANGED <<queues, enq, nextId>>
    /\ UNCHANGED <<simVars, configVars, subscribers, msg_rxs, hook, handle, shutdown,
                   dropping, dpc, dispVars, now, threads, active,
                   sentinels, joins, tickLog, delivered, hookSeen>>

\* Where stop() returns to: the caller, or the end of Drop::drop.
Returned(d) == IF d THEN "dropped" ELSE "idle"

\* Mutant of StopSwap: the flag is stored, its old value ignored.
StopSwapAlways(d) ==
    /\ dropping' = d
    /\ shutdown' = TRUE
    /\ opc' = "stop_send"
    /\ UNCHANGED <<simVars, configVars, subscribers, msg_rxs, hook, handle, queues, dpc,
                   dispVars, now, nextId, threads, active, sentinels, joins,
                   tickLog, delivered, enq, hookSeen>>

\* stop(), first statement: shutdown.swap(true)
StopSwap(d) ==
    /\ dropping' = (IF shutdown THEN dropping ELSE d)
    /\ shutdown' = TRUE
    /\ opc' = IF shutdown THEN Returned(d) ELSE "stop_send"
    /\ UNCHANGED <<simVars, configVars, subscribers, msg_rxs, hook, handle, queues, dpc,
                   dispVars, now, nextId, threads, active, sentinels, joins,
                   tickLog, delivered, enq, hookSeen>>

Stop ==
    /\ opc = "idle"
    /\ StopSwap(FALSE)

\* Drop::drop, run when the owner lets go of the bus or unwinds from a panic.
DropBus ==
    /\ opc \in {"idle", "panic"}
    /\ StopSwap(TRUE)

\* stop(): let _ = msg_txs[len - 1].send(sentinel)
StopSend ==
    /\ opc = "stop_send"
    /\ IF Connected
       THEN Send(Envelope(NopId, "", 0, "stop", 0), nq - 1)
       ELSE UNCHANGED <<queues, enq>>
    /\ sentinels' = sentinels + 1
    /\ opc' = "stop_join"
    /\ UNCHANGED <<simVars, configVars, subscribers, msg_rxs, hook, handle, shutdown,
                   dropping, dpc, dispVars, now, nextId, threads, active,
                   joins, tickLog, delivered, hookSeen>>

\* stop(): if let Some(handle) = self.handle.take()
StopTake ==
    /\ opc = "stop_join"
    /\ handle' = FALSE
    /\ opc' = IF handle THEN "joining" ELSE Returned(dropping)
    /\ UNCHANGED <<simVars, configVars, subscribers, msg_rxs, hook, shutdown, queues,
                   dropping, dpc, dispVars, now, nextId, obsVars>>

\* stop(): handle.join() returns once the dispatch thread has returned.
StopJoin ==
    /\ opc = "joining"
    /\ dpc = "done"
    /\ joins' = joins + 1
    /\ opc' = Returned(dropping)
    /\ UNCHANGED <<simVars, configVars, subscribers, msg_rxs, hook, handle, shutdown,
                   queues, dropping, dpc, dispVars, now, nextId, threads, active,
                   sentinels, tickLog, delivered, enq, hookSeen>>

\* ------------------------------------------------------------------ clock
\* The clock is read by the dispatch thread alone, so it is advanced only
\* while that thread is alive.
ClockAdvance ==
    /\ dpc \notin {"none", "done"}
    /\ now < horizon
    /\ now' = now + 1
    /\ UNCHANGED <<simVars, configVars, ownerVars, shutdown, queues, dpc, dispVars,
                   nextId, obsVars>>

\* SystemTime is the wall clock: it can be set back while the thread runs.
ClockRewind ==
    /\ dpc \notin {"none", "done"}
    /\ \E t \in 0 .. (now - 1) : now' = t
    /\ UNCHANGED <<simVars, configVars, ownerVars, shutdown, queues, dpc, dispVars,
                   nextId, obsVars>>

\* --------------------------------------------------------- dispatch thread
\* a.duration_since(b): Ok(a - b), or Err when a is earlier than b
DurationSince(a, b) == IF a >= b THEN <<a - b>> ELSE <<>>

\* Result::unwrap_or(default)
UnwrapOr(res, default) == IF res = <<>> THEN default ELSE res[1]

Busy == cb # <<>> \/ outbox # <<>>

\* The log of tick calls keeps the first MaxTickLog calls.
LogTick(s, at) ==
    IF Len(tickLog) < MaxTickLog
    THEN Append(tickLog, [sub |-> s, at |-> at])
    ELSE tickLog

\* Mutant of ThreadBegin: the thread goes to its loop without the initial tick.
ThreadBeginNoTick ==
    /\ dpc = "spawned"
    /\ start_time' = now
    /\ next_tick' = now + tick_interval
    /\ tick_at' = now
    /\ iter' = <<>>
    /\ dpc' = "head"
    /\ UNCHANGED <<simVars, configVars, ownerVars, shutdown, queues, dsubs, dorder,
                   timeout, deadline, poll_i, envelope_opt, cb, outbox, now,
                   nextId, obsVars>>

\* process_messages, up to the initial for loop: start_time and next_tick.
ThreadBegin ==
    /\ dpc = "spawned"
    /\ start_time' = now
    /\ next_tick' = now + tick_interval
    /\ tick_at' = now
    /\ iter' = dorder
    /\ dpc' = "init"
    /\ UNCHANGED <<simVars, configVars, ownerVars, shutdown, queues, dsubs, dorder,
                   timeout, deadline, poll_i, envelope_opt, cb, outbox, now,
                   nextId, obsVars>>

\* subscriber.tick(at), the call: in the initial loop and in catch-up.
TickCall ==
    /\ dpc \in {"init", "catchup"}
    /\ ~Busy
    /\ iter # <<>>
    /\ cb' = <<[kind |-> "tick", sub |-> Head(iter), at |-> tick_at, env |-> -1]>>
    /\ iter' = Tail(iter)
    /\ active' = active + 1
    /\ tickLog' = LogTick(Head(iter), tick_at)
    /\ UNCHANGED <<simVars, configVars, ownerVars, shutdown, queues, dpc, dsubs, dorder,
                   start_time, next_tick, tick_at, timeout, deadline, poll_i,
                   envelope_opt, outbox, now, nextId, threads, sentinels,
                   joins, delivered, enq, hookSeen>>

\* What a callback may return: up to MaxOut envelopes, any destination and
\* priority, while fresh message identities remain.
Returns ==
    UNION {[1 .. k -> Names \X Prios] :
             k \in 0 .. Min(MaxOut, supply + 1 - nextId)}

\* tick / receive returns its Vec<Envelope>.
CallbackReturn ==
    /\ cb # <<>>
    /\ \E r \in Returns :
         /\ outbox' = [i \in 1 .. Len(r) |->
                          Envelope(nextId + i - 1, r[i][1], r[i][2],
                                   cb[1].kind, nextId)]
         /\ nextId' = nextId + Len(r)
    /\ cb' = <<>>
    /\ active' = active - 1
    /\ UNCHANGED <<simVars, configVars, ownerVars, shutdown, queues, dpc, dsubs, dorder,
                   start_time, next_tick, tick_at, iter, timeout, deadline,
                   poll_i, envelope_opt, now, threads, sentinels, joins,
                   tickLog, delivered, enq, hookSeen>>

\* for envelope in envelopes { hook.on_publish(..); txs[priority].send(..) }
SendReturned ==
    /\ cb = <<>>
    /\ outbox # <<>>
    /\ hookSeen' = hookSeen \cup {Head(outbox).id}
    /\ Send(Head(outbox), LaneOf(Head(outbox).prio))
    /\ outbox' = Tail(outbox)
    /\ UNCHANGED <<simVars, configVars, ownerVars, shutdown, dpc, dsubs, dorder,
                   start_time, next_tick, tick_at, iter, timeout, deadline,
                   poll_i, envelope_opt, cb, now, nextId, threads, active,
                   sentinels, joins, tickLog, delivered>>

\* Where the thread goes after spawn: the initial tick loop.
InitDone ==
    /\ dpc = "init"
    /\ ~Busy
    /\ iter = <<>>
    /\ dpc' = "head"
    /\ UNCHANGED <<simVars, configVars, ownerVars, shutdown, queues, dsubs, dorder,
                   start_time, next_tick, tick_at, iter, timeout, deadline,
                   poll_i, envelope_opt, cb, outbox, now, nextId, obsVars>>

\* Loop head: the shutdown check, the clock sample, the timeout.
LoopHead ==
    /\ dpc = "head"
    /\ IF shutdown
       THEN /\ dpc' = "done"
            /\ UNCHANGED <<timeout, poll_i>>
       ELSE IF now >= next_tick
       THEN /\ dpc' = "while"
            /\ UNCHANGED <<timeout, poll_i>>
       ELSE /\ dpc' = "poll"
            /\ timeout' = UnwrapOr(DurationSince(next_tick, now), tick_interval)
            /\ poll_i' = nq - 1
    /\ UNCHANGED <<simVars, configVars, ownerVars, shutdown, queues, dsubs, dorder,
                   start_time, next_tick, tick_at, iter, deadline, envelope_opt,
                   cb, outbox, now, nextId, obsVars>>

\* Mutant of WhileCheck: the missed ticks are fired with the current time.
WhileCheckNow ==
    /\ dpc = "while"
    /\ IF next_tick <= now
       THEN /\ dpc' = "catchup"
            /\ tick_at' = now
            /\ iter' = dorder
       ELSE /\ dpc' = "head"
            /\ UNCHANGED <<tick_at, iter>>
    /\ UNCHANGED <<simVars, configVars, ownerVars, shutdown, queues, dsubs, dorder,
                   start_time, next_tick, timeout, deadline, poll_i,
                   envelope_opt, cb, outbox, now, nextId, obsVars>>

\* while next_tick <= SystemTime::now()
WhileCheck ==
    /\ dpc = "while"
    /\ IF next_tick <= now
       THEN /\ dpc' = "catchup"
            /\ tick_at' = next_tick
            /\ iter' = dorder
       ELSE /\ dpc' = "head"
            /\ UNCHANGED <<tick_at, iter>>
    /\ UNCHANGED <<simVars, configVars, ownerVars, shutdown, queues, dsubs, dorder,
                   start_time, next_tick, timeout, deadline, poll_i,
                   envelope_opt, cb, outbox, now, nextId, obsVars>>

\* End of one catch-up round: next_tick += tick_interval
RoundEnd ==
    /\ dpc = "catchup"
    /\ ~Busy
    /\ iter = <<>>
    /\ next_tick' = next_tick + tick_interval
    /\ dpc' = "while"
    /\ UNCHANGED <<simVars, configVars, ownerVars, shutdown, queues, dsubs, dorder,
                   start_time, tick_at, iter, timeout, deadline, poll_i,
                   envelope_opt, cb, outbox, now, nextId, obsVars>>

\* A receive on lane l that finds an envelope.
Take(l) ==
    /\ queues[l] # <<>>
    /\ envelope_opt' = <<[env |-> Head(queues[l]), lane |-> l]>>
    /\ queues' = [queues EXCEPT ![l] = Tail(@)]

\* rxs[i].try_recv() in the descending loop; after lane 0, the selector.
TryRecv ==
    /\ dpc = "poll"
    /\ IF queues[poll_i] # <<>>
       THEN /\ Take(poll_i)
            /\ dpc' = "deliver"
            /\ poll_i' = 0
            /\ timeout' = 0
            /\ UNCHANGED deadline
       ELSE IF poll_i > 0
       THEN /\ poll_i' = poll_i - 1
            /\ UNCHANGED <<dpc, timeout, deadline, queues, envelope_opt>>
       ELSE /\ dpc' = "select"
            /\ deadline' = now + timeout
            /\ timeout' = 0
            /\ UNCHANGED <<poll_i, queues, envelope_opt>>
    /\ UNCHANGED <<simVars, configVars, ownerVars, shutdown, dsubs, dorder, start_time,
                   next_tick, tick_at, iter, cb, outbox, now, nextId, obsVars>>

\* selector.wait_timeout(timeout) => Ok(Ok(envelope)): every lane is registered
\* alike, so the envelope may come from any lane that holds one.
SelectRecv ==
    /\ dpc = "select"
    /\ \E l \in Lanes : Take(l)
    /\ dpc' = "deliver"
    /\ deadline' = 0
    /\ UNCHANGED <<simVars, configVars, ownerVars, shutdown, dsubs, dorder, start_time,
                   next_tick, tick_at, iter, timeout, poll_i, cb, outbox, now,
                   nextId, obsVars>>

\* selector.wait_timeout(timeout) => Err(_): continue
SelectTimeout ==
    /\ dpc = "select"
    /\ now >= deadline
    /\ dpc' = "head"
    /\ deadline' = 0
    /\ UNCHANGED <<simVars, configVars, ownerVars, shutdown, queues, dsubs, dorder,
                   start_time, next_tick, tick_at, iter, timeout, poll_i,
                   envelope_opt, cb, outbox, now, nextId, obsVars>>

\* Mutant of Lookup: an unknown destination falls back to any subscriber.
LookupOrAny(d) == IF d \in dsubs THEN {d} ELSE dsubs

\* subscribers.get_mut(&envelope.destination)
Lookup(d) == IF d \in dsubs THEN {d} ELSE {}

\* Delivery: a lookup miss drops the envelope, a hit calls receive(message, at).
Deliver ==
    /\ dpc = "deliver"
    /\ LET e == envelope_opt[1].env
           l == envelope_opt[1].lane
       IN IF Lookup(e.dest) = {}
          THEN /\ dpc' = "head"
               /\ UNCHANGED <<cb, active, delivered>>
          ELSE \E s \in Lookup(e.dest) :
               /\ dpc' = "recv"
               /\ cb' = <<[kind |-> "receive", sub |-> s, at |-> now, env |-> e.id]>>
               /\ active' = active + 1
               /\ delivered' = Append(delivered,
                                 [env |-> e, sub |-> s, lane |-> l])
    /\ envelope_opt' = <<>>
    /\ UNCHANGED <<simVars, configVars, ownerVars, shutdown, queues, dsubs, dorder,
                   start_time, next_tick, tick_at, iter, timeout, deadline,
                   poll_i, outbox, now, nextId, threads, sentinels, joins,
                   tickLog, enq, hookSeen>>

\* The returned envelopes are sent: back to the loop head.
RecvDone ==
    /\ dpc = "recv"
    /\ ~Busy
    /\ dpc' = "head"
    /\ UNCHANGED <<simVars, configVars, ownerVars, shutdown, queues, dsubs, dorder,
                   start_time, next_tick, tick_at, iter, timeout, deadline,
                   poll_i, envelope_opt, cb, outbox, now, nextId, obsVars>>

\* ---------------------------------------------------------------- Simulator
simLocals == <<step_by, taken, num_queues, sim_iter, drain_lane, drain_idx,
               tick_ev>>

\* What a callback of the Simulator's subscribers may return.
SimReturns ==
    UNION {[1 .. k -> Names \X Prios] :
             k \in 0 .. Min(MaxOut, MaxSimEnv + 1 - simNextId)}

\* The events made of a returned Vec r: SimulatorEvent::Envelope(envelope, at)
Returned2Events(r, from, at) ==
    [i \in 1 .. Len(r) |->
        EnvelopeEvent(Envelope(simNextId + i - 1, r[i][1], r[i][2], from,
                               simNextId), at)]

\* envelope.priority.min(num_queues - 1)
SimLaneOf(p) == Min(p, num_queues - 1)

\* Mutant of Captured: the lane is assigned the new events, not extended.
CapturedOverwrite(buf, evs) ==
    [l \in DOMAIN buf |->
        IF SelectSeq(evs, LAMBDA x : SimLaneOf(x.env.prio) = l) # <<>>
        THEN SelectSeq(evs, LAMBDA x : SimLaneOf(x.env.prio) = l)
        ELSE buf[l]]

\* for envelope in envelopes { new_events[priority].push_back(..) }
Captured(buf, evs) ==
    [l \in DOMAIN buf |->
        buf[l] \o SelectSeq(evs, LAMBDA x : SimLaneOf(x.env.prio) = l)]

\* The record of one callback: env is the message received, -1 for a tick,
\* ret the <<destination, priority>> pairs of the Vec it returned.
SimCall(kind, sub, at, env, ret) ==
    [kind |-> kind, sub |-> sub, at |-> at, env |-> env, phase |-> spc,
     ret |-> ret]

\* The arguments of the calls one subscriber got, in order.
CallsTo(log, sub) ==
    LET mine == SelectSeq(log, LAMBDA c : c.sub = sub)
    IN [i \in 1 .. Len(mine) |->
          [kind |-> mine[i].kind, at |-> mine[i].at, env |-> mine[i].env]]

\* What the call (kind, at, env) of subscriber sub may return. A subscriber
\* is deterministic: in the second instance, one that has been called as it
\* was in the first returns what it returned there.
ReturnsOf(kind, sub, at, env) ==
    LET before == CallsTo(sim_calls, sub)
        k == Len(before) + 1
        first == IF first_run = <<>> THEN <<>> ELSE first_run[1].calls
        then == CallsTo(first, sub)
        rets == SelectSeq(first, LAMBDA c : c.sub = sub)
    IN IF /\ run = 2
          /\ k <= Len(then)
          /\ SubSeq(then, 1, k - 1) = before
          /\ then[k] = [kind |-> kind, at |-> at, env |-> env]
       THEN {rets[k].ret}
       ELSE SimReturns

\* A callback returns r: its envelopes go to new_events.
Capture(r, from, at) ==
    /\ new_events' = Captured(new_events, Returned2Events(r, from, at))
    /\ produced' = produced \o Returned2Events(r, from, at)
    /\ simNextId' = simNextId + Len(r)

\* step(step_by), up to the tick loop: self.events is taken, new_events made.
StepEnter(by) ==
    /\ spc = "idle"
    /\ steps' = steps + 1
    /\ step_by' = by
    /\ taken' = events
    /\ events' = <<>>
    /\ num_queues' = Cardinality(DOMAIN events)
    /\ new_events' = [l \in DOMAIN events |-> <<>>]
    /\ sim_iter' = sim_order
    /\ spc' = "tick"
    /\ produced' = <<>>
    /\ received' = <<>>
    /\ drained' = <<>>
    /\ drained_pos' = <<>>
    /\ sim_calls' = <<>>
    /\ time_before' = time
    /\ sim_ret' = <<>>
    /\ UNCHANGED <<busVars, detVars, lanes_given, sim_subscribers, sim_order, time, drain_lane,
                   drain_idx, tick_ev, simNextId>>

\* A call of step(by) by the user of the Simulator.
SimStepBegin(by) ==
    /\ to_pc = "none"
    /\ steps < MaxSteps
    /\ StepEnter(by)
    /\ UNCHANGED toVars

\* step(): subscriber.tick(self.time) in the first loop.
SimTick ==
    /\ spc = "tick"
    /\ sim_iter # <<>>
    /\ \E r \in ReturnsOf("tick", Head(sim_iter), time, -1) :
         /\ Capture(r, "tick", time)
         /\ sim_calls' = Append(sim_calls,
                           SimCall("tick", Head(sim_iter), time, -1, r))
    /\ sim_iter' = Tail(sim_iter)
    /\ UNCHANGED <<busVars, detVars, lanes_given, sim_subscribers, sim_order, events, time, spc,
                   step_by, taken, num_queues, drain_lane, drain_idx, tick_ev,
                   steps, received, drained, drained_pos, time_before, sim_ret, toVars>>

\* Mutant of SimAdvance: the time is assigned the step, not advanced by it.
SimAdvanceAssign ==
    /\ spc = "tick"
    /\ sim_iter = <<>>
    /\ time' = step_by
    /\ spc' = "drain"
    /\ drain_lane' = num_queues - 1
    /\ drain_idx' = 1
    /\ UNCHANGED <<busVars, detVars, lanes_given, sim_subscribers, sim_order, events, step_by, taken,
                   num_queues, new_events, sim_iter, tick_ev, simNextId, steps,
                   produced, received, drained, drained_pos, sim_calls, time_before,
                   sim_ret, toVars>>

\* step(): self.time += step_by, then the drain starts at the top lane.
SimAdvance ==
    /\ spc = "tick"
    /\ sim_iter = <<>>
    /\ time' = time + step_by
    /\ spc' = "drain"
    /\ drain_lane' = num_queues - 1
    /\ drain_idx' = 1
    /\ UNCHANGED <<busVars, detVars, lanes_given, sim_subscribers, sim_order, events, step_by, taken,
                   num_queues, new_events, sim_iter, tick_ev, simNextId, steps,
                   produced, received, drained, drained_pos, sim_calls, time_before,
                   sim_ret, toVars>>

\* The drain is at an event of the snapshot.
AtEvent ==
    /\ spc = "drain"
    /\ tick_ev = <<>>
    /\ drain_lane >= 0
    /\ drain_idx <= Len(taken[drain_lane])

\* step(): the lane is exhausted, events.into_iter().rev() gives the next one.
SimNextLane ==
    /\ spc = "drain"
    /\ tick_ev = <<>>
    /\ drain_lane >= 0
    /\ drain_idx > Len(taken[drain_lane])
    /\ drain_lane' = drain_lane - 1
    /\ drain_idx' = 1
    /\ UNCHANGED <<busVars, detVars, lanes_given, sim_subscribers, sim_order, events, time, spc,
                   step_by, taken, num_queues, new_events, sim_iter, tick_ev,
                   simNextId, steps, produced, received, drained, drained_pos, sim_calls,
                   time_before, sim_ret, toVars>>

\* step(): SimulatorEvent::Envelope(envelope, at): get_mut(..).unwrap(), then
\* receive(message, at).
SimReceive ==
    /\ AtEvent
    /\ LET ev == taken[drain_lane][drain_idx]
       IN /\ ev.kind = "envelope"
          /\ drained' = Append(drained, ev)
          /\ drained_pos' = Append(drained_pos, <<drain_lane, drain_idx>>)
          /\ IF ev.env.dest \in sim_subscribers
             THEN /\ \E r \in ReturnsOf("receive", ev.env.dest, ev.at, ev.env.id) :
                       /\ Capture(r, "receive", ev.at)
                       /\ sim_calls' = Append(sim_calls,
                                         SimCall("receive", ev.env.dest, ev.at,
                                                 ev.env.id, r))
                  /\ received' = Append(received,
                                   [env |-> ev.env, sub |-> ev.env.dest, at |-> ev.at])
                  /\ drain_idx' = drain_idx + 1
                  /\ spc' = spc
             ELSE \* unwrap() on None: the unwinding drops new_events
                  /\ spc' = "panic"
                  /\ new_events' = <<>>
                  /\ UNCHANGED <<produced, simNextId, received, drain_idx,
                                 sim_calls>>
    /\ UNCHANGED <<busVars, detVars, lanes_given, sim_subscribers, sim_order, events, time, step_by,
                   taken, num_queues, sim_iter, drain_lane, tick_ev, steps,
                   time_before, sim_ret, toVars>>

\* step(): SimulatorEvent::Tick(at): the loop over all subscribers starts.
SimTickEventBegin ==
    /\ AtEvent
    /\ LET ev == taken[drain_lane][drain_idx]
       IN /\ ev.kind = "tick"
          /\ drained' = Append(drained, ev)
          /\ drained_pos' = Append(drained_pos, <<drain_lane, drain_idx>>)
          /\ tick_ev' = <<ev.at>>
    /\ sim_iter' = sim_order
    /\ UNCHANGED <<busVars, detVars, lanes_given, sim_subscribers, sim_order, events, time, spc,
                   step_by, taken, num_queues, new_events, drain_lane, drain_idx,
                   simNextId, steps, produced, received, sim_calls, time_before,
                   sim_ret, toVars>>

\* step(): subscriber.tick(at) inside a Tick(at) event.
SimTickEventCall ==
    /\ spc = "drain"
    /\ tick_ev # <<>>
    /\ sim_iter # <<>>
    /\ \E r \in ReturnsOf("tick", Head(sim_iter), tick_ev[1], -1) :
         /\ Capture(r, "tick", tick_ev[1])
         /\ sim_calls' = Append(sim_calls,
                           SimCall("tick", Head(sim_iter), tick_ev[1], -1, r))
    /\ sim_iter' = Tail(sim_iter)
    /\ UNCHANGED <<busVars, detVars, lanes_given, sim_subscribers, sim_order, events, time, spc,
                   step_by, taken, num_queues, drain_lane, drain_idx, tick_ev,
                   steps, received, drained, drained_pos, time_before, sim_ret, toVars>>

\* step(): the Tick(at) event is done.
SimTickEventEnd ==
    /\ spc = "drain"
    /\ tick_ev # <<>>
    /\ sim_iter = <<>>
    /\ tick_ev' = <<>>
    /\ drain_idx' = drain_idx + 1
    /\ UNCHANGED <<busVars, detVars, lanes_given, sim_subscribers, sim_order, events, time, spc,
                   step_by, taken, num_queues, new_events, sim_iter, drain_lane,
                   simNextId, steps, produced, received, drained, drained_pos, sim_calls,
                   time_before, sim_ret, toVars>>

\* step(): self.events = new_events; self.time
SimStepEnd ==
    /\ spc = "drain"
    /\ tick_ev = <<>>
    /\ drain_lane < 0
    /\ events' = new_events
    /\ spc' = "idle"
    /\ sim_ret' = <<time>>
    /\ UNCHANGED <<busVars, detVars, lanes_given, sim_subscribers, sim_order, time, step_by, taken,
                   num_queues, new_events, sim_iter, drain_lane, drain_idx,
                   tick_ev, simNextId, steps, produced, received, drained, drained_pos,
                   sim_calls, time_before, toVars>>

\* ------------------------------------------------------------------ step_to
stepVars == <<sim_subscribers, sim_order, events, time, spc, step_by, taken,
              num_queues, new_events, sim_iter, drain_lane, drain_idx, tick_ev,
              simNextId, steps, produced, received, drained, drained_pos,
              lanes_given, sim_calls, time_before, sim_ret, detVars>>

\* time.duration_since(self.time).unwrap_or(Duration::ZERO)
RemainingTime(target, t) == IF target >= t THEN target - t ELSE 0

\* A call of step_to(time, step_by) by the user of the Simulator.
StepToCall(target, by) ==
    /\ spc = "idle"
    /\ to_pc = "none"
    /\ steps < MaxSteps
    /\ to_pc' = "loop"
    /\ to_target' = target
    /\ to_by' = by
    /\ to_start' = time
    /\ to_steps' = <<>>
    /\ to_ret' = <<>>
    /\ UNCHANGED <<busVars, stepVars>>

\* Mutant of StepToStep: the step is step_by, whatever time remains.
StepToStepWhole ==
    /\ to_pc = "loop"
    /\ time < to_target
    /\ to_by # 0
    /\ StepEnter(to_by)
    /\ to_steps' = Append(to_steps, <<time, to_by>>)
    /\ UNCHANGED <<to_pc, to_target, to_by, to_start, to_ret>>

\* step_to: while self.time < time { .. self.step(actual_step) }
StepToStep ==
    /\ to_pc = "loop"
    /\ time < to_target
    /\ LET actual_step == Min(to_by, RemainingTime(to_target, time))
       IN /\ actual_step # 0
          /\ StepEnter(actual_step)
          /\ to_steps' = Append(to_steps, <<time, actual_step>>)
    /\ UNCHANGED <<to_pc, to_target, to_by, to_start, to_ret>>

\* step_to: the loop ends, by its condition or by the break; self.time
StepToReturn ==
    /\ to_pc = "loop"
    /\ spc = "idle"
    /\ \/ ~(time < to_target)
       \/ Min(to_by, RemainingTime(to_target, time)) = 0
    /\ to_pc' = "none"
    /\ to_ret' = <<time>>
    /\ UNCHANGED <<busVars, stepVars, to_target, to_by, to_start, to_steps>>

\* The statements of step() after its entry.
StepBody ==
    \/ SimTick
    \/ SimAdvance
    \/ SimNextLane
    \/ SimReceive
    \/ SimTickEventBegin
    \/ SimTickEventCall
    \/ SimTickEventEnd
    \/ SimStepEnd

StepToRun == StepBody \/ StepToStep \/ StepToReturn

StepToNext ==
    \/ \E target \in 0 .. MaxTarget : \E by \in 0 .. MaxToBy :
         StepToCall(target, by)
    \/ StepToRun

\* The Simulator driven by step_to: at most one subscriber, and one lane
\* that holds any LaneContents.
StepToInit ==
    /\ Fresh
    /\ WithHook(<<1, 1, 0, 0>>)
    /\ \E subs \in SUBSET {"a"} : \E order \in Perms(subs) :
         \E c \in LaneContents :
           SimNew(subs, order, [l \in {0} |-> InitialLane(l, c)])
    /\ given_events = <<>>

\* A call that has begun runs on: the code is sequential.
StepToSpec == StepToInit /\ [][StepToNext]_vars /\ WF_vars(StepToRun)

\* ------------------------------------------------------- a second instance
\* The arguments of new() are kept, to build a Simulator from them again;
\* the Simulators compared have one lane.
DetInit ==
    /\ Fresh
    /\ WithHook(<<1, 1, 0, 0>>)
    /\ \E subs \in SUBSET Names : \E order \in Perms(subs) :
         \E n \in 0 .. 1 :
           \E c \in [0 .. (n - 1) -> LaneContents] :
             /\ SimNew(subs, order, [l \in 0 .. (n - 1) |-> InitialLane(l, c[l])])
             /\ given_events = [l \in 0 .. (n - 1) |-> InitialLane(l, c[l])]

\* The first instance has made its step. A second Simulator is built by
\* new() from the same subscribers, time and events; its HashMap is another
\* instance, whose iteration order is its own (the hasher is seeded per map).
Rebuild ==
    /\ run = 1
    /\ spc = "idle"
    /\ steps = 1
    /\ to_pc = "none"
    /\ first_run' = <<[calls |-> sim_calls, events |-> events,
                       by |-> step_by, time |-> time]>>
    /\ run' = 2
    /\ \E order \in Perms(sim_subscribers) : sim_order' = order
    /\ events' = (IF DOMAIN given_events = {}
                  THEN [l \in {0} |-> <<>>]
                  ELSE given_events)
    /\ time' = 0
    /\ step_by' = 0
    /\ taken' = <<>>
    /\ num_queues' = 0
    /\ new_events' = <<>>
    /\ sim_iter' = <<>>
    /\ drain_lane' = 0
    /\ drain_idx' = 0
    /\ tick_ev' = <<>>
    /\ simNextId' = 1
    /\ steps' = 0
    /\ produced' = <<>>
    /\ received' = <<>>
    /\ drained' = <<>>
    /\ drained_pos' = <<>>
    /\ sim_calls' = <<>>
    /\ time_before' = 0
    /\ sim_ret' = <<>>
    /\ UNCHANGED <<busVars, sim_subscribers, spc, lanes_given, given_events,
                   toVars>>

\* Each instance is driven by the same step call.
DetStep(by) ==
    /\ steps = 0
    /\ run = 2 => by = first_run[1].by
    /\ SimStepBegin(by)

DetNext ==
    \/ \E by \in 0 .. MaxBy : DetStep(by)
    \/ StepBody
    \/ Rebuild

DetSpec == DetInit /\ [][DetNext]_vars

\* ---------------------------------------------------------- scripted run()
\* run() is called by the tests of main.rs and is not in simulator.rs: it is
\* modelled from its specification. The script is the flat event sequence
\* given to new(), held as the one lane of self.events.
Scripts ==
    UNION {[1 .. k -> {"tick"} \cup Names] : k \in 0 .. MaxScript}

\* The events of script c: event i is stamped with the time i.
ScriptEvents(c) ==
    [i \in DOMAIN c |->
        IF c[i] = "tick" THEN TickEvent(i)
        ELSE EnvelopeEvent(InitialEnvelope(0, i, c[i]), i)]

RunInit ==
    /\ Fresh
    /\ WithHook(<<1, 1, 0, 0>>)
    /\ \E subs \in SUBSET Names : \E order \in Perms(subs) :
         \E c \in Scripts :
           /\ SimNew(subs, order, [l \in {0} |-> ScriptEvents(c)])
           /\ given_events = [l \in {0} |-> ScriptEvents(c)]

runFrame == <<busVars, detVars, toVars, lanes_given, sim_subscribers,
              sim_order, time, step_by, num_queues, new_events, drain_lane,
              steps, received, time_before, sim_ret>>

\* run(self): the script is consumed from its first event.
RunBegin ==
    /\ spc = "idle"
    /\ to_pc = "none"
    /\ steps = 0
    /\ taken' = events
    /\ events' = <<>>
    /\ drain_idx' = 1
    /\ spc' = "run"
    /\ UNCHANGED <<runFrame, sim_iter, tick_ev, simNextId, produced, drained,
                   drained_pos, sim_calls>>

\* The event the run is at.
RunAt ==
    /\ spc = "run"
    /\ tick_ev = <<>>
    /\ drain_idx <= Len(taken[0])

\* A callback of the run returns r: the envelopes are discarded.
Discard(r, from, at) ==
    /\ produced' = produced \o Returned2Events(r, from, at)
    /\ simNextId' = simNextId + Len(r)

\* Mutant of RunReceive: what receive returns is appended to the script.
RunReceiveRequeue ==
    /\ RunAt
    /\ LET ev == taken[0][drain_idx]
       IN /\ ev.kind = "envelope"
          /\ drained' = Append(drained, ev)
          /\ drained_pos' = Append(drained_pos, <<0, drain_idx>>)
          /\ IF ev.env.dest \in sim_subscribers
             THEN \E r \in ReturnsOf("receive", ev.env.dest, ev.at, ev.env.id) :
                    /\ Discard(r, "receive", ev.at)
                    /\ taken' = [taken EXCEPT ![0] =
                                   @ \o Returned2Events(r, "receive", ev.at)]
                    /\ sim_calls' = Append(sim_calls,
                                      SimCall("receive", ev.env.dest, ev.at,
                                              ev.env.id, r))
             ELSE UNCHANGED <<produced, simNextId, sim_calls, taken>>
    /\ drain_idx' = drain_idx + 1
    /\ UNCHANGED <<runFrame, events, spc, sim_iter, tick_ev>>

\* run(): Envelope(e, at): receive(e.message, at) on the addressed
\* subscriber; an unknown destination is dropped silently.
RunReceive ==
    /\ RunAt
    /\ LET ev == taken[0][drain_idx]
       IN /\ ev.kind = "envelope"
          /\ drained' = Append(drained, ev)
          /\ drained_pos' = Append(drained_pos, <<0, drain_idx>>)
          /\ IF ev.env.dest \in sim_subscribers
             THEN \E r \in ReturnsOf("receive", ev.env.dest, ev.at, ev.env.id) :
                    /\ Discard(r, "receive", ev.at)
                    /\ sim_calls' = Append(sim_calls,
                                      SimCall("receive", ev.env.dest, ev.at,
                                              ev.env.id, r))
             ELSE UNCHANGED <<produced, simNextId, sim_calls>>
    /\ drain_idx' = drain_idx + 1
    /\ UNCHANGED <<runFrame, events, spc, taken, sim_iter, tick_ev>>

\* run(): Tick(at): the loop over all subscribers starts.
RunTickBegin ==
    /\ RunAt
    /\ LET ev == taken[0][drain_idx]
       IN /\ ev.kind = "tick"
          /\ drained' = Append(drained, ev)
          /\ drained_pos' = Append(drained_pos, <<0, drain_idx>>)
          /\ tick_ev' = <<ev.at>>
    /\ sim_iter' = sim_order
    /\ UNCHANGED <<runFrame, events, spc, taken, drain_idx, simNextId,
                   produced, sim_calls>>

\* run(): tick(at) on the next subscriber.
RunTickCall ==
    /\ spc = "run"
    /\ tick_ev # <<>>
    /\ sim_iter # <<>>
    /\ \E r \in ReturnsOf("tick", Head(sim_iter), tick_ev[1], -1) :
         /\ Discard(r, "tick", tick_ev[1])
         /\ sim_calls' = Append(sim_calls,
                           SimCall("tick", Head(sim_iter), tick_ev[1], -1, r))
    /\ sim_iter' = Tail(sim_iter)
    /\ UNCHANGED <<runFrame, events, spc, taken, drain_idx, tick_ev, drained,
                   drained_pos>>

\* run(): the Tick(at) event is done.
RunTickEnd ==
    /\ spc = "run"
    /\ tick_ev # <<>>
    /\ sim_iter = <<>>
    /\ tick_ev' = <<>>
    /\ drain_idx' = drain_idx + 1
    /\ UNCHANGED <<runFrame, events, spc, taken, sim_iter, simNextId, produced,
                   drained, drained_pos, sim_calls>>

\* run(): the script is at its end; the Simulator is consumed.
RunEnd ==
    /\ spc = "run"
    /\ tick_ev = <<>>
    /\ drain_idx > Len(taken[0])
    /\ spc' = "done"
    /\ UNCHANGED <<runFrame, events, taken, sim_iter, drain_idx, tick_ev,
                   simNextId, produced, drained, drained_pos, sim_calls>>

RunNext ==
    \/ RunBegin
    \/ RunReceive
    \/ RunTickBegin
    \/ RunTickCall
    \/ RunTickEnd
    \/ RunEnd

RunSpec == RunInit /\ [][RunNext]_vars

SimNext ==
    \/ \E by \in 0 .. MaxBy : SimStepBegin(by)
    \/ SimTick
    \/ SimAdvance
    \/ SimNextLane
    \/ SimReceive
    \/ SimTickEventBegin
    \/ SimTickEventCall
    \/ SimTickEventEnd
    \/ SimStepEnd

SimSpec == SimInit /\ [][SimNext]_vars

OwnerStep ==
    \/ \E n \in Names : Subscribe(n)
    \/ Start
    \/ \E d \in Names, p \in Prios : Publish(d, p)
    \/ Stop
    \/ DropBus
    \/ StopSend
    \/ StopTake
    \/ StopJoin

DispatchStep ==
    \/ ThreadBegin
    \/ TickCall
    \/ CallbackReturn
    \/ SendReturned
    \/ InitDone
    \/ LoopHead
    \/ WhileCheck
    \/ RoundEnd
    \/ TryRecv
    \/ SelectRecv
    \/ SelectTimeout
    \/ Deliver
    \/ RecvDone

Next == OwnerStep \/ DispatchStep \/ ClockAdvance

Spec == Init /\ [][Next]_vars

\* ------------------------------------------------------- the bus, any clock
\* One lane and one message, on every tick interval.
ClockScenarios == {<<1, i, MaxTime, 1>> : i \in 0 .. MaxInterval}

ClockInit ==
    /\ Fresh
    /\ \E sc \in ClockScenarios : WithHook(sc)
    /\ SimNew({}, <<>>, <<>>)
    /\ given_events = <<>>

ClockNext == OwnerStep \/ DispatchStep \/ ClockAdvance \/ ClockRewind

ClockSpec == ClockInit /\ [][ClockNext]_vars

\* A smaller family of runs for the properties checked under fairness.
LiveScenarios == {<<MaxQueues, i, 1, 1>> : i \in 0 .. 1}

LiveInit ==
    /\ Fresh
    /\ \E sc \in LiveScenarios : WithHook(sc)
    /\ SimNew({}, <<>>, <<>>)
    /\ given_events = <<>>

\* The scheduler runs the dispatch thread and lets a stop() in progress go on;
\* CallbackReturn, a step of the dispatch thread, makes every callback return.
LiveSpec ==
    /\ LiveInit
    /\ [][Next]_vars
    /\ WF_vars(DispatchStep)
    /\ WF_vars(StopSend \/ StopTake \/ StopJoin)

\* ================================================================ claims
Range(q) == {q[i] : i \in DOMAIN q}

\* The position of envelope e in the order of sends.
EnqPos(e) == CHOOSE k \in DOMAIN enq : enq[k].env = e

\* The dispatch thread takes an envelope off lane envelope_opt'[1].lane.
Taken == envelope_opt = <<>> /\ envelope_opt' # <<>>

\* C1: whenever the dispatch thread takes an envelope, no lane above the one
\* it takes from holds an envelope.
C1_StrictPriority ==
    [][Taken => \A i \in Lanes :
                   queues[i] # <<>> => envelope_opt'[1].lane >= i]_vars

\* stop() has been called on a started bus and has not returned.
StopPending == opc \in {"stop_send", "stop_join", "joining"} /\ ~msg_rxs

\* C2: once stop() is called on a started bus, the dispatch thread leaves its
\* loop and stop() returns.
C2_ShutdownLiveness ==
    StopPending ~> (dpc = "done" /\ opc \in {"idle", "dropped"})

\* Every receive call is for an envelope that was sent, on the subscriber
\* registered under its destination, and no envelope is received twice.
SingleDelivery ==
    /\ \A i \in DOMAIN delivered :
         /\ \E k \in DOMAIN enq :
              enq[k].env = delivered[i].env /\ enq[k].lane = delivered[i].lane
         /\ delivered[i].sub = delivered[i].env.dest
         /\ delivered[i].sub \in dsubs
    /\ \A i, j \in DOMAIN delivered :
         i # j => delivered[i].env.id # delivered[j].env.id

\* The dispatch thread finishes with an envelope whose destination is unknown.
DropStep ==
    /\ envelope_opt # <<>>
    /\ envelope_opt' = <<>>
    /\ envelope_opt[1].env.dest \notin dsubs

\* C3: single delivery, and an envelope to an unregistered destination leaves
\* with no callback, no send and no change to what any subscriber has seen.
C3_SingleDelivery ==
    [][/\ SingleDelivery'
       /\ DropStep => UNCHANGED <<cb, active, outbox, queues, enq, delivered,
                                  tickLog, nextId, hookSeen>>]_vars

\* Some envelope was dropped for want of a subscriber, another was received.
C3_Witness ==
    /\ delivered # <<>>
    /\ \E k \in DOMAIN enq :
         /\ enq[k].env.dest \notin dsubs
         /\ dpc = "head"
         /\ \A l \in Lanes : enq[k].env \notin Range(queues[l])

\* C4: when a receive has been called, every registered subscriber has had
\* tick(start_time) and the initial loop, sends included, is over.
C4_InitialTickFirst ==
    delivered # <<>> =>
        /\ \A s \in dsubs :
             \E k \in DOMAIN tickLog : tickLog[k] = [sub |-> s, at |-> start_time]
        /\ dpc \notin {"none", "spawned", "init"}

\* An envelope published before any callback returned is the first received,
\* after an initial tick that returned an envelope itself.
C4_Witness ==
    /\ Cardinality(dsubs) = 2
    /\ Len(enq) >= 2
    /\ enq[1].env.from = "publish"
    /\ enq[2].env.from = "tick"
    /\ delivered # <<>>
    /\ delivered[1].env = enq[1].env

\* The tick calls made on subscriber s, in order.
TicksOf(s) == SelectSeq(tickLog, LAMBDA r : r.sub = s)

\* C5: the k-th tick of every subscriber is at start_time + (k-1) * I, and a
\* tick for a later time comes after every subscriber's tick for an earlier one.
C5_TickCadence ==
    /\ \A s \in Names :
         /\ TicksOf(s) # <<>> => s \in dsubs
         /\ \A k \in DOMAIN TicksOf(s) :
              TicksOf(s)[k].at = start_time + (k - 1) * tick_interval
    /\ \A j \in DOMAIN tickLog : \A s \in dsubs : \A k \in 0 .. MaxTime :
         start_time + k * tick_interval < tickLog[j].at =>
             \E i \in 1 .. (j - 1) :
                 tickLog[i] = [sub |-> s, at |-> start_time + k * tick_interval]

\* The clock is two intervals past next_tick in the middle of a catch-up with
\* two subscribers.
C5_Witness ==
    /\ tick_interval > 0
    /\ Cardinality(dsubs) = 2
    /\ dpc = "catchup"
    /\ now >= next_tick + tick_interval
    /\ Len(tickLog) >= 3

\* C6: the queue count is the request, or 1 for a request of 0, and every
\* envelope sent by publish or returned by a callback is on lane
\* min(priority, N - 1) and nowhere else.
C6_PrioritySaturation ==
    /\ nq = (IF requested = 0 THEN 1 ELSE requested)
    /\ DOMAIN queues = 0 .. (nq - 1)
    /\ \A k \in DOMAIN enq :
         enq[k].env.from # "stop" =>
             /\ enq[k].lane = Min(enq[k].env.prio, nq - 1)
             /\ enq[k].lane \in 0 .. (nq - 1)
    /\ \A l \in DOMAIN queues : \A i \in DOMAIN queues[l] :
         /\ queues[l][i].from # "stop" => l = Min(queues[l][i].prio, nq - 1)
         /\ \A m \in DOMAIN queues : \A j \in DOMAIN queues[m] :
              queues[m][j] = queues[l][i] => (m = l /\ j = i)

\* With a request of 0 queues, envelopes of a priority above the top lane were
\* sent by publish and by a callback.
C6_Witness ==
    /\ requested = 0
    /\ \E k \in DOMAIN enq : enq[k].env.from = "publish" /\ enq[k].env.prio > nq - 1
    /\ \E k \in DOMAIN enq : enq[k].env.from = "tick" /\ enq[k].env.prio > nq - 1
    /\ \E l \in Lanes : queues[l] # <<>>

\* What holds of stop() in every state.
StopOnce ==
    /\ sentinels <= 1
    /\ joins <= 1
    /\ opc = "stop_send" => sentinels = 0
    /\ opc \in {"stop_send", "stop_join", "joining"} => joins = 0
    /\ (shutdown /\ opc \in {"idle", "panic", "dropped"}) =>
          /\ sentinels = 1
          /\ joins = (IF threads = 1 /\ ~handle THEN 1 ELSE 0)

\* C7: the shutdown flag never goes back to false; one sentinel and at most
\* one join over the life of the bus, both by the first stop().
C7_ShutdownMonotonic ==
    [][(shutdown => shutdown') /\ StopOnce']_vars

\* Drop has run stop() again after a first stop(), called by the owner, that
\* sent the sentinel and joined the thread.
C7_Witness ==
    /\ opc = "dropped"
    /\ ~dropping
    /\ joins = 1
    /\ sentinels = 1

\* C8: at most one dispatch thread is ever spawned and at most one callback
\* is executing.
C8_NoConcurrentCallbacks == threads <= 1 /\ active <= 1

\* A second start() has failed while the first thread is inside a callback.
C8_Witness ==
    /\ opc = "panic"
    /\ dpc # "done"
    /\ active = 1
    /\ threads = 1

\* C9: envelopes received off one lane are received in the order they were
\* sent, and the envelopes of one returned Vec are sent in its order.
C9_LaneFifo ==
    /\ \A i, j \in DOMAIN delivered :
         (i < j /\ delivered[i].lane = delivered[j].lane) =>
             EnqPos(delivered[i].env) < EnqPos(delivered[j].env)
    /\ \A i, j \in DOMAIN enq :
         (enq[i].env.batch # 0 /\ enq[i].env.batch = enq[j].env.batch
            /\ enq[i].env.id < enq[j].env.id) => i < j

\* Two envelopes returned by one callback went to one lane and were both
\* received.
C9_Witness ==
    /\ Len(delivered) >= 2
    /\ delivered[1].lane = delivered[2].lane
    /\ delivered[1].env.batch # 0
    /\ delivered[1].env.batch = delivered[2].env.batch

\* ------------------------------------------------------------------- C10
\* Lane l of a lane buffer; a buffer without that lane holds nothing there.
PendingOn(buf, l) == IF l \in DOMAIN buf THEN buf[l] ELSE <<>>

\* The envelopes returned so far in the step, as they should sit on lane l.
ReturnedOn(l) == SelectSeq(produced, LAMBDA x : SimLaneOf(x.env.prio) = l)

\* The snapshot of a step, in the order the drain walks it.
RECURSIVE SnapshotFrom(_)
SnapshotFrom(l) ==
    IF l < 0 \/ l \notin DOMAIN taken THEN <<>>
    ELSE taken[l] \o SnapshotFrom(l - 1)

\* C10: Simulator envelope recapture. The events a step drains are the
\* snapshot taken when it began, in drain order; every envelope a tick or
\* receive callback returned during the step is kept for the next step, on
\* lane min(priority, N-1) in the order produced, is not delivered in the
\* step that produced it, and once the step is over the pending events are
\* exactly those envelopes.
C10_EnvelopeRecapture ==
    steps > 0 =>
      /\ \A l \in 0 .. (num_queues - 1) :
           PendingOn(IF spc \in {"tick", "drain"} THEN new_events ELSE events, l)
             = ReturnedOn(l)
      /\ \A i \in 1 .. Len(received) : \A j \in 1 .. Len(produced) :
           received[i].env.id # produced[j].env.id
      /\ Len(drained) <= Len(SnapshotFrom(num_queues - 1))
      /\ drained = SubSeq(SnapshotFrom(num_queues - 1), 1, Len(drained))
      /\ spc = "idle" => drained = SnapshotFrom(num_queues - 1)

\* ------------------------------------------------------------------- C11
\* The callbacks of the tick phase of the step, and those of its drain.
TickPhase == SelectSeq(sim_calls, LAMBDA c : c.phase = "tick")
DrainPhase == SelectSeq(sim_calls, LAMBDA c : c.phase = "drain")

\* C11: Simulator step phases. In each step(by) every subscriber is ticked
\* once with the time held before the step, all of these ticks come before
\* any event of the step is drained, the time then advances by exactly by,
\* and the value step returns is the old time plus by.
C11_StepPhases ==
    steps > 0 =>
      /\ sim_calls = TickPhase \o DrainPhase
      /\ \A i \in 1 .. Len(TickPhase) :
           /\ TickPhase[i].kind = "tick"
           /\ TickPhase[i].at = time_before
           /\ TickPhase[i].sub = sim_order[i]
      /\ spc = "tick" =>
           /\ drained = <<>>
           /\ time = time_before
           /\ Len(TickPhase) + Len(sim_iter) = Len(sim_order)
      /\ spc # "tick" =>
           /\ Len(TickPhase) = Len(sim_order)
           /\ time = time_before + step_by
      /\ spc = "idle" => sim_ret = <<time_before + step_by>>
      /\ spc # "idle" => sim_ret = <<>>

\* A second step of a positive length is over: two subscribers were ticked
\* and then an event was drained.
C11_Witness ==
    /\ spc = "idle"
    /\ steps = 2
    /\ step_by > 0
    /\ time_before > 0
    /\ Len(TickPhase) = 2
    /\ drained # <<>>
    /\ sim_ret = <<time>>

\* ------------------------------------------------------------------- C12
\* Position p of the snapshot is drained before position q: a higher lane
\* first, and within a lane the earlier index first.
DrainsBefore(p, q) == p[1] > q[1] \/ (p[1] = q[1] /\ p[2] < q[2])

\* The positions of the snapshot of the step.
SnapshotPositions ==
    {p \in (DOMAIN taken) \X (1 .. MaxSimEnv + MaxInit) :
        p[2] <= Len(taken[p[1]])}

\* C12: Simulator drain order. Within a step every pending event of lane i
\* is processed before any pending event of a lane j < i, and the events of
\* one lane in the order they were queued; between steps the number of lanes
\* is the number given at construction, 1 if none was given.
C12_DrainOrder ==
    /\ steps > 0 =>
         /\ \A i \in 1 .. Len(drained_pos) :
              /\ drained_pos[i] \in SnapshotPositions
              /\ drained[i] = taken[drained_pos[i][1]][drained_pos[i][2]]
              /\ \A j \in 1 .. Len(drained_pos) :
                   i < j => DrainsBefore(drained_pos[i], drained_pos[j])
         /\ \A p \in SnapshotPositions :
              \/ \E i \in 1 .. Len(drained_pos) : drained_pos[i] = p
              \/ /\ spc # "idle"
                 /\ \A i \in 1 .. Len(drained_pos) : DrainsBefore(drained_pos[i], p)
    /\ spc = "idle" =>
         DOMAIN events = 0 .. ((IF lanes_given = 0 THEN 1 ELSE lanes_given) - 1)

\* A step over two lanes is done: it drained two events of one lane and one
\* of another.
C12_Witness ==
    /\ spc = "idle"
    /\ steps > 0
    /\ \E i, j, k \in 1 .. Len(drained_pos) :
         /\ i < j
         /\ drained_pos[i][1] = drained_pos[j][1]
         /\ drained_pos[k][1] # drained_pos[i][1]

\* ------------------------------------------------------------------- C13
\* The drain is at an envelope whose destination is not a subscriber.
AtUnknownDestination ==
    /\ AtEvent
    /\ taken[drain_lane][drain_idx].kind = "envelope"
    /\ taken[drain_lane][drain_idx].env.dest \notin sim_subscribers

\* C13: Simulator unknown destination. Draining an envelope whose
\* destination is not in the subscriber map drops it silently: no callback
\* is made for it, the step does not fail and goes on to the next event, and
\* nothing any subscriber returned is touched.
C13_UnknownDestinationDropped ==
    [][AtUnknownDestination =>
         /\ spc' = "drain"
         /\ drain_lane' = drain_lane
         /\ drain_idx' = drain_idx + 1
         /\ UNCHANGED <<sim_calls, received, new_events, produced, taken>>]_vars

\* ------------------------------------------------------------------- C14
\* The steps of the step_to in progress, or of the last one, are each of
\* length min(by, target - time), follow each other from the time of the
\* call, and never carry the time past the target.
StepToSteps ==
    /\ \A i \in 1 .. Len(to_steps) :
         /\ to_steps[i][1] = (IF i = 1 THEN to_start
                              ELSE to_steps[i - 1][1] + to_steps[i - 1][2])
         /\ to_steps[i][2] = Min(to_by, to_target - to_steps[i][1])
         /\ to_steps[i][2] > 0
    /\ to_steps # <<>> => time <= to_target

\* What step_to returned: the target when there was time to cover, and the
\* unchanged time after no step at all otherwise.
StepToResult ==
    (to_pc = "none" /\ to_ret # <<>>) =>
      /\ to_ret = <<time>>
      /\ IF to_by > 0 /\ to_target > to_start
         THEN time = to_target
         ELSE to_steps = <<>> /\ time = to_start

\* step_to with nothing to do touches nothing of the Simulator.
StepToIdle ==
    (to_pc = "loop" /\ (to_by = 0 \/ to_start >= to_target))
      => UNCHANGED stepVars

\* C14: step_to(target, by) always terminates; with by > 0 and a target
\* later than the current time it ends with the time equal to the target,
\* each of its steps advancing by min(by, target - time); with the time
\* already at or past the target, or by zero, it performs no step, makes no
\* callback and returns the unchanged time.
C14_StepTo ==
    /\ [](StepToSteps /\ StepToResult)
    /\ [][StepToIdle]_vars
    /\ (to_pc = "loop") ~> (to_pc = "none" \/ spc = "panic")

\* step_to(3, 2) from time 0 has returned 3 after a step of 2 and one of 1.
C14_Witness ==
    /\ to_pc = "none"
    /\ to_ret = <<to_target>>
    /\ Len(to_steps) = 2
    /\ to_steps[2][2] < to_by

\* ------------------------------------------------------------------- C15
\* The callbacks of a log, with their arguments, in the order made.
CallsMade(log) ==
    [i \in 1 .. Len(log) |->
        [kind |-> log[i].kind, sub |-> log[i].sub, at |-> log[i].at,
         env |-> log[i].env]]

\* The pending events of a lane buffer, by what they carry.
Content(buf) ==
    [l \in DOMAIN buf |->
        [i \in 1 .. Len(buf[l]) |->
            [kind |-> buf[l][i].kind, at |-> buf[l][i].at,
             dest |-> buf[l][i].env.dest, prio |-> buf[l][i].env.prio,
             from |-> buf[l][i].env.from]]]

\* C15: Simulator determinism. Two Simulators built from the same
\* subscribers, initial time and initial events and driven by the same step
\* make the same callbacks with the same arguments in the same order, leave
\* each subscriber with the same history and end with the same time and the
\* same pending events, lane by lane and in the same order.
C15_Determinism ==
    (run = 2 /\ steps = 1 /\ spc = "idle") =>
      /\ CallsMade(sim_calls) = CallsMade(first_run[1].calls)
      /\ \A sub \in sim_subscribers :
           CallsTo(sim_calls, sub) = CallsTo(first_run[1].calls, sub)
      /\ time = first_run[1].time
      /\ Content(events) = Content(first_run[1].events)

\* ------------------------------------------------------------------- C16
\* C16: Publish hook coverage. Every envelope placed on a queue of the bus,
\* by publish(), by a tick callback or by a receive callback, was passed to
\* on_publish before it was enqueued.
C16_HookCoverage ==
    \A i \in 1 .. Len(enq) :
        enq[i].env.from \in {"publish", "tick", "receive"}
          => enq[i].env.id \in hookSeen

\* ------------------------------------------------------------------- C17
\* C17: Double start fails loudly. A start() on a bus that was started
\* before, stopped since or not, ends in a panic and spawns no thread; the
\* dispatch thread, running or stopped, its registry and locals, the queues,
\* the handle and the shutdown flag are as they were. No step at all adds a
\* thread to a bus that was started.
C17_DoubleStart ==
    [][/\ ~msg_rxs => threads' = threads
       /\ (Start /\ ~msg_rxs) =>
            /\ opc' = "panic"
            /\ UNCHANGED <<threads, dpc, dispVars, queues, enq, shutdown,
                           handle, subscribers, msg_rxs, nextId>>]_vars

\* start() was called again while the dispatch thread was running, with an
\* envelope waiting in a queue.
C17_Witness ==
    /\ opc = "panic"
    /\ threads = 1
    /\ dpc \notin {"none", "done"}
    /\ handle
    /\ ~shutdown
    /\ \E l \in Lanes : queues[l] # <<>>

\* ------------------------------------------------------------------- C18
\* The subscribers that were called back: by tick, by receive, or being
\* called now.
CalledBack ==
    {tickLog[i].sub : i \in 1 .. Len(tickLog)}
      \cup {delivered[i].sub : i \in 1 .. Len(delivered)}
      \cup {cb[i].sub : i \in 1 .. Len(cb)}

\* C18: subscribe only configures. The registry the dispatch thread uses is
\* the one built before start(); a subscribe call made after start() does
\* not register with the thread: it never changes the registry, and only
\* subscribers of the registry get tick or receive callbacks.
C18_SubscribeConfiguring ==
    [][/\ (dpc = "none" /\ dpc' # "none") =>
            (dsubs' = subscribers /\ Range(dorder') = subscribers)
       /\ dpc # "none" => UNCHANGED <<dsubs, dorder>>
       /\ CalledBack' \subseteq dsubs']_vars

\* "a" was subscribed after start(): the thread has ticked its own registry
\* twice and has dropped an envelope addressed to "a".
C18_Witness ==
    /\ ~msg_rxs
    /\ "a" \in subscribers
    /\ dsubs = {""}
    /\ Len(tickLog) >= 2
    /\ dpc = "head"
    /\ \E i \in 1 .. Len(enq) :
         /\ enq[i].env.dest = "a"
         /\ \A l \in Lanes : enq[i].env \notin Range(queues[l])
         /\ \A j \in 1 .. Len(delivered) : delivered[j].env # enq[i].env

\* ------------------------------------------------------------------- C19
\* The callbacks the first k events of script sc call for: receive on the
\* addressed subscriber for an Envelope, tick on every subscriber for a Tick.
RECURSIVE ScriptCalls(_, _)
ScriptCalls(sc, k) ==
    IF k = 0 THEN <<>>
    ELSE ScriptCalls(sc, k - 1) \o
         (IF sc[k].kind = "tick"
          THEN [i \in 1 .. Len(sim_order) |->
                  [kind |-> "tick", sub |-> sim_order[i], at |-> sc[k].at,
                   env |-> -1]]
          ELSE IF sc[k].env.dest \in sim_subscribers
          THEN <<[kind |-> "receive", sub |-> sc[k].env.dest, at |-> sc[k].at,
                  env |-> sc[k].env.id]>>
          ELSE <<>>)

\* The tick calls subscriber sub got, and the Tick events of a script.
TicksTo(sub) ==
    Len(SelectSeq(sim_calls, LAMBDA c : c.kind = "tick" /\ c.sub = sub))
ScriptTicks(sc) == Len(SelectSeq(sc, LAMBDA e : e.kind = "tick"))

\* C19: Scripted replay. run() consumes the script in order, calling
\* receive(message, at) on the addressed subscriber for each Envelope(e, at)
\* and tick(at) on every subscriber for each Tick(at), and makes no other
\* callback: each subscriber is ticked as often as the script has Tick
\* events, and no envelope a callback returned is delivered or left pending.
C19_ScriptedReplay ==
    spc \in {"run", "done"} =>
      LET script == given_events[0]
          all == ScriptCalls(script, Len(script))
      IN /\ Len(sim_calls) <= Len(all)
         /\ CallsMade(sim_calls) = SubSeq(all, 1, Len(sim_calls))
         /\ spc = "done" =>
              /\ CallsMade(sim_calls) = all
              /\ \A sub \in sim_subscribers : TicksTo(sub) = ScriptTicks(script)
         /\ \A i \in 1 .. Len(sim_calls) : \A j \in 1 .. Len(produced) :
              sim_calls[i].env # produced[j].env.id
         /\ events = <<>>
         /\ new_events = <<>>

\* A run is over in which a subscriber was ticked, one received an envelope
\* of the script, and envelopes were returned and discarded.
C19_Witness ==
    /\ spc = "done"
    /\ produced # <<>>
    /\ \E i, j \in 1 .. Len(sim_calls) :
         sim_calls[i].kind = "tick" /\ sim_calls[j].kind = "receive"

\* ------------------------------------------------------------------- C20
\* C20: Clock regression fallback. The timeout the loop computes for its
\* selective wait never exceeds tick_interval, and when the clock sample
\* lies before a time the thread saw earlier (its start_time) the timeout is
\* one tick_interval.
C20_ClockRegression ==
    [][(dpc = "head" /\ dpc' = "poll") =>
         /\ timeout' <= tick_interval
         /\ now < start_time => timeout' = tick_interval]_vars

\* ------------------------------------------------------------------- C21
\* C21: The shutdown sentinel is never delivered. Whatever names were
\* subscribed and however stop() interleaves with the dispatch loop, no
\* receive call is made with the no-op envelope that stop() sent.
C21_SentinelNeverDelivered ==
    \A i \in DOMAIN delivered : delivered[i].env.id # NopId

\* ------------------------------------------------------------------- C22
\* The `at` values one subscriber was called with in the step, in order.
AtsOf(sub) ==
    LET mine == CallsTo(sim_calls, sub)
    IN [i \in 1 .. Len(mine) |-> mine[i].at]

\* C22: Simulator timestamps are monotonic per subscriber. With initial
\* events stamped with the initial time, the `at` values passed to one
\* subscriber's tick and receive callbacks never decrease, and the `at` of a
\* receive is not earlier than the `at` of the tick phase of the step that
\* delivers the envelope.
C22_MonotonicTimestamps ==
    /\ \A s \in sim_subscribers :
         \A i, j \in 1 .. Len(AtsOf(s)) :
           i < j => AtsOf(s)[i] <= AtsOf(s)[j]
    /\ \A i \in 1 .. Len(sim_calls) :
         sim_calls[i].kind = "receive" => sim_calls[i].at >= time_before

====
